---- MODULE Spec2Model ----
(***************************************************************************)
(* AutoTokenizer (paddlenlp/transformers/auto/tokenizer.py): the class     *)
(* resolution registry.  The state is the process-wide registry            *)
(* (TOKENIZER_MAPPING._extra_content) and the record of the last public    *)
(* call: its arguments, the collaborators it invoked and how it ended.     *)
(* Every public entry point is one action, because the module is           *)
(* synchronous and single threaded.                                        *)
(*                                                                         *)
(* Python strings that are class names are sequences of chunks, so that    *)
(* f"{name}Fast" and name.endswith("Fast") are computed, not assumed:      *)
(* "BertTokenizerFast" is <<"BertTokenizer", "Fast">>.                     *)
(***************************************************************************)
EXTENDS Integers, Sequences, FiniteSets, TLC

VARIABLES extra_content, call

vars == <<extra_content, call>>

(***************************************************************************)
(* Python values                                                           *)
(***************************************************************************)
NoneV == [kind |-> "none", name |-> <<>>, items |-> <<>>]
Str(n) == [kind |-> "str", name |-> n, items |-> <<>>]
Cls(n) == [kind |-> "class", name |-> n, items |-> <<>>]
Tup(s) == [kind |-> "tuple", name |-> <<>>, items |-> s]

\* None where a class name (a str) is expected
NoneStr == <<>>

FastSuffix == <<"Fast">>
EndsWithFast(n) == Len(n) > 0 /\ n[Len(n)] = "Fast"
AppendFast(n) == n \o FastSuffix

\* dict helpers for **kwargs
EmptyDict == [k \in {} |-> TRUE]
DictGet(d, k, default) == IF k \in DOMAIN d THEN d[k] ELSE default
DictPop(d, k) == [x \in (DOMAIN d) \ {k} |-> d[x]]
DictSet(d, k, v) == [x \in (DOMAIN d) \cup {k} |-> IF x = k THEN v ELSE d[x]]

(***************************************************************************)
(* Class names of the fixture                                              *)
(***************************************************************************)
AlbertChineseTokenizer == <<"AlbertChineseTokenizer">>
AlbertEnglishTokenizer == <<"AlbertEnglishTokenizer">>
BartTokenizer == <<"BartTokenizer">>
BertTokenizer == <<"BertTokenizer">>
BertTokenizerFast == <<"BertTokenizer", "Fast">>
PretrainedTokenizerFast == <<"PretrainedTokenizer", "Fast">>
\* classes a user registers at run time
CustomTokenizer == <<"CustomTokenizer">>
CustomTokenizerFast == <<"CustomTokenizer", "Fast">>
\* a reference implementation whose name happens to end in "Fast"
SteadFast == <<"Stead", "Fast">>
\* an accelerated implementation whose name does not end in "Fast"
RapidTokenizer == <<"RapidTokenizer">>

\* issubclass(c, PretrainedTokenizerFast)
IsFastClass(c) ==
    c.kind = "class" /\ c.name \in {BertTokenizerFast, PretrainedTokenizerFast,
                                    CustomTokenizerFast, RapidTokenizer}

\* issubclass(c, PretrainedTokenizer)
IsSlowClass(c) ==
    c.kind = "class" /\ c.name \in {AlbertChineseTokenizer, AlbertEnglishTokenizer,
                                    BartTokenizer, BertTokenizer, CustomTokenizer,
                                    SteadFast}

\* fast_tokenizer_class.slow_tokenizer_class
SlowTokenizerClassOf(c) ==
    IF c.name = BertTokenizerFast THEN Cls(BertTokenizer)
    ELSE IF c.name = CustomTokenizerFast THEN Cls(CustomTokenizer)
    ELSE NoneV

\* tuple(cls.pretrained_init_configuration.keys())
PretrainedInitNames(n) ==
    IF n = AlbertChineseTokenizer THEN <<"albert-chinese-tiny">>
    ELSE IF n = AlbertEnglishTokenizer THEN <<"albert-base-v1", "albert-base-v2">>
    ELSE IF n = BartTokenizer THEN <<"bart-base">>
    ELSE IF n = BertTokenizer THEN <<"bert-base-uncased", "bert-base-chinese">>
    ELSE <<>>

(***************************************************************************)
(* The static tables                                                       *)
(***************************************************************************)
\* the optional tokenizers backend is installed
is_tokenizers_available == TRUE

\* a sample of the table that keeps each of its three shapes: a tuple of
\* candidates without accelerated class, a single name, and a pair whose
\* accelerated name depends on is_tokenizers_available()
TOKENIZER_MAPPING_NAMES ==
    << <<"albert", Tup(<<Tup(<<Str(AlbertChineseTokenizer), Str(AlbertEnglishTokenizer)>>),
                         NoneV>>)>>,
       <<"bart", Str(BartTokenizer)>>,
       <<"bert", Tup(<<Str(BertTokenizer),
                       IF is_tokenizers_available THEN Str(BertTokenizerFast) ELSE NoneV>>)>> >>

\* model type -> configuration class name
CONFIG_MAPPING_NAMES ==
    << <<"albert", "AlbertConfig">>, <<"bart", "BartConfig">>, <<"bert", "BertConfig">> >>

SeqNames(s) == [i \in 1..Len(s) |-> s[i].name]

get_mapping_tokenizers(tokenizers, with_fast) ==
    IF tokenizers.kind = "tuple"
    THEN LET tokenizer_slow == tokenizers.items[1]
             tokenizer_fast == tokenizers.items[2]
         IN (IF tokenizer_slow.kind = "tuple"
             THEN SeqNames(tokenizer_slow.items)
             ELSE <<tokenizer_slow.name>>)
            \o (IF with_fast /\ tokenizer_fast # NoneV
                THEN <<tokenizer_fast.name>> ELSE <<>>)
    ELSE <<tokenizers.name>>

\* MAPPING_NAMES[name] = tokenizer_name on an OrderedDict: an existing key keeps
\* its position and takes the new value
OrderedDictSet(od, key, val) ==
    IF \E i \in 1..Len(od) : od[i].names = key
    THEN [i \in 1..Len(od) |-> IF od[i].names = key THEN [names |-> key, cls |-> val]
                                                  ELSE od[i]]
    ELSE Append(od, [names |-> key, cls |-> val])

RECURSIVE ConfigurationsOfKeys(_, _)
ConfigurationsOfKeys(keys, acc) ==
    IF keys = <<>> THEN acc
    ELSE ConfigurationsOfKeys(Tail(keys),
             OrderedDictSet(acc, PretrainedInitNames(Head(keys)), Cls(Head(keys))))

RECURSIVE ConfigurationsFrom(_, _)
ConfigurationsFrom(i, acc) ==
    IF i > Len(TOKENIZER_MAPPING_NAMES) THEN acc
    ELSE ConfigurationsFrom(i + 1,
             ConfigurationsOfKeys(
                 get_mapping_tokenizers(TOKENIZER_MAPPING_NAMES[i][2], FALSE), acc))

get_configurations == ConfigurationsFrom(1, <<>>)

\* AutoTokenizer._tokenizer_mapping
tokenizer_mapping == get_configurations

(***************************************************************************)
(* TOKENIZER_MAPPING, the lazy Config-Class Table                          *)
(***************************************************************************)
ConfigClasses == {"AlbertConfig", "BartConfig", "BertConfig", "CustomConfig"}

\* config_class_to_model_type(name): the model type, or "" for None
config_class_to_model_type(config_name) ==
    IF \E i \in 1..Len(CONFIG_MAPPING_NAMES) : CONFIG_MAPPING_NAMES[i][2] = config_name
    THEN CONFIG_MAPPING_NAMES[
             CHOOSE i \in 1..Len(CONFIG_MAPPING_NAMES) :
                 /\ CONFIG_MAPPING_NAMES[i][2] = config_name
                 /\ \A j \in 1..(i - 1) : CONFIG_MAPPING_NAMES[j][2] # config_name][1]
    ELSE ""

HasTokenizerNames(model_type) ==
    \E i \in 1..Len(TOKENIZER_MAPPING_NAMES) : TOKENIZER_MAPPING_NAMES[i][1] = model_type

TokenizerNamesOf(model_type) ==
    TOKENIZER_MAPPING_NAMES[
        CHOOSE i \in 1..Len(TOKENIZER_MAPPING_NAMES) :
            TOKENIZER_MAPPING_NAMES[i][1] = model_type][2]

\* getattribute_from_module: names become the classes they name
RECURSIVE LoadAttr(_)
LoadAttr(attr) ==
    IF attr.kind = "none" THEN NoneV
    ELSE IF attr.kind = "tuple"
         THEN Tup([i \in 1..Len(attr.items) |-> LoadAttr(attr.items[i])])
         ELSE Cls(attr.name)

\* TOKENIZER_MAPPING[config_class]
LazyMappingGetItem(config_class) ==
    IF config_class \in DOMAIN extra_content
    THEN [ok |-> TRUE, val |-> extra_content[config_class]]
    ELSE IF HasTokenizerNames(config_class_to_model_type(config_class))
         THEN [ok |-> TRUE,
               val |-> LoadAttr(TokenizerNamesOf(config_class_to_model_type(config_class)))]
         ELSE [ok |-> FALSE, val |-> NoneV]

\* TOKENIZER_MAPPING.register(key, value, exist_ok): TRUE when it raises
LazyMappingRegisterRaises(config_class, exist_ok) ==
    /\ HasTokenizerNames(config_class_to_model_type(config_class))
    /\ ~exist_ok

(***************************************************************************)
(* AutoTokenizer.register                                                  *)
(***************************************************************************)
\* the categories told by the class name instead of issubclass
RegisterValidation_ByName(slow_tokenizer_class, fast_tokenizer_class) ==
    IF slow_tokenizer_class = NoneV /\ fast_tokenizer_class = NoneV
    THEN "ValueError: need either"
    ELSE IF slow_tokenizer_class # NoneV /\ EndsWithFast(slow_tokenizer_class.name)
    THEN "ValueError: fast passed as slow"
    ELSE IF fast_tokenizer_class # NoneV /\ ~EndsWithFast(fast_tokenizer_class.name)
    THEN "ValueError: slow passed as fast"
    ELSE IF /\ slow_tokenizer_class # NoneV
            /\ fast_tokenizer_class # NoneV
            /\ IsFastClass(fast_tokenizer_class)
            /\ SlowTokenizerClassOf(fast_tokenizer_class) # slow_tokenizer_class
    THEN "ValueError: inconsistent slow_tokenizer_class"
    ELSE ""

\* the validation without the check of lines 498-509
RegisterValidation_NoCompanionCheck(slow_tokenizer_class, fast_tokenizer_class) ==
    IF slow_tokenizer_class = NoneV /\ fast_tokenizer_class = NoneV
    THEN "ValueError: need either"
    ELSE IF slow_tokenizer_class # NoneV /\ IsFastClass(slow_tokenizer_class)
    THEN "ValueError: fast passed as slow"
    ELSE IF fast_tokenizer_class # NoneV /\ IsSlowClass(fast_tokenizer_class)
    THEN "ValueError: slow passed as fast"
    ELSE ""

\* the outcome of the validation of lines 491-509: "" when it passes
RegisterValidation(slow_tokenizer_class, fast_tokenizer_class) ==
    IF slow_tokenizer_class = NoneV /\ fast_tokenizer_class = NoneV
    THEN "ValueError: need either"
    ELSE IF slow_tokenizer_class # NoneV /\ IsFastClass(slow_tokenizer_class)
    THEN "ValueError: fast passed as slow"
    ELSE IF fast_tokenizer_class # NoneV /\ IsSlowClass(fast_tokenizer_class)
    THEN "ValueError: slow passed as fast"
    ELSE IF /\ slow_tokenizer_class # NoneV
            /\ fast_tokenizer_class # NoneV
            /\ IsFastClass(fast_tokenizer_class)
            /\ SlowTokenizerClassOf(fast_tokenizer_class) # slow_tokenizer_class
    THEN "ValueError: inconsistent slow_tokenizer_class"
    ELSE ""

\* the pair as passed, without the carry-over of lines 512-517
RegisterMerged_Overwrite(config_class, slow_tokenizer_class, fast_tokenizer_class) ==
    Tup(<<slow_tokenizer_class, fast_tokenizer_class>>)

\* lines 511-517: the pair that is handed to TOKENIZER_MAPPING.register
RegisterMerged(config_class, slow_tokenizer_class, fast_tokenizer_class) ==
    IF config_class \in DOMAIN extra_content
    THEN LET existing == LazyMappingGetItem(config_class).val
             existing_slow == existing.items[1]
             existing_fast == existing.items[2]
         IN Tup(<<IF slow_tokenizer_class = NoneV THEN existing_slow
                                                  ELSE slow_tokenizer_class,
                  IF fast_tokenizer_class = NoneV THEN existing_fast
                                                  ELSE fast_tokenizer_class>>)
    ELSE Tup(<<slow_tokenizer_class, fast_tokenizer_class>>)

RegisterStatus(config_class, slow_tokenizer_class, fast_tokenizer_class, exist_ok) ==
    IF RegisterValidation(slow_tokenizer_class, fast_tokenizer_class) # ""
    THEN RegisterValidation(slow_tokenizer_class, fast_tokenizer_class)
    ELSE IF LazyMappingRegisterRaises(config_class, exist_ok)
         THEN "ValueError: already used"
         ELSE "ok"

RegConfigClasses == {"BertConfig", "CustomConfig"}
RegSlowClasses == {NoneV, Cls(CustomTokenizer), Cls(SteadFast), Cls(RapidTokenizer)}
RegFastClasses == {NoneV, Cls(CustomTokenizerFast), Cls(SteadFast)}

\* Register with the write ahead of the validation: a call the validation
\* rejects has already put its pair in the table
Register_WriteFirst(config_class, slow_tokenizer_class, fast_tokenizer_class, exist_ok) ==
    LET status == RegisterStatus(config_class, slow_tokenizer_class,
                                 fast_tokenizer_class, exist_ok)
    IN /\ extra_content' =
              IF status # "ValueError: already used"
              THEN DictSet(extra_content, config_class,
                           RegisterMerged(config_class, slow_tokenizer_class,
                                          fast_tokenizer_class))
              ELSE extra_content
       /\ call' = [op |-> "register", config_class |-> config_class,
                   slow |-> slow_tokenizer_class, fast |-> fast_tokenizer_class,
                   exist_ok |-> exist_ok, status |-> status]

\* lines 478-519: AutoTokenizer.register
Register(config_class, slow_tokenizer_class, fast_tokenizer_class, exist_ok) ==
    LET status == RegisterStatus(config_class, slow_tokenizer_class,
                                 fast_tokenizer_class, exist_ok)
    IN /\ extra_content' =
              IF status = "ok"
              THEN DictSet(extra_content, config_class,
                           RegisterMerged(config_class, slow_tokenizer_class,
                                          fast_tokenizer_class))
              ELSE extra_content
       /\ call' = [op |-> "register", config_class |-> config_class,
                   slow |-> slow_tokenizer_class, fast |-> fast_tokenizer_class,
                   exist_ok |-> exist_ok, status |-> status]

(***************************************************************************)
(* The collaborators: the file resolver and AutoConfig, over a fixture of  *)
(* identifiers                                                             *)
(***************************************************************************)
Identifiers ==
    {"bert-base-uncased", "bart-base", "local/bert", "local/bert-fast", "local/both",
     "local/init-only", "local/custom", "community/albert", "community/bart-tc",
     "community/custom"}

\* resolve_file_path(identifier, TOKENIZER_CONFIG_FILE, ...) is not None
ResolveFilePathFinds(identifier) ==
    identifier \in {"bert-base-uncased", "local/bert", "local/bert-fast", "local/both",
                    "local/init-only", "local/custom"}

\* json.load of the resolved tokenizer_config.json
TokenizerConfigFile(identifier) ==
    IF identifier = "bert-base-uncased" THEN [k \in {"tokenizer_class"} |-> BartTokenizer]
    ELSE IF identifier = "local/bert" THEN [k \in {"tokenizer_class"} |-> BertTokenizer]
    ELSE IF identifier = "local/bert-fast"
         THEN [k \in {"tokenizer_class"} |-> BertTokenizerFast]
    ELSE IF identifier = "local/both"
         THEN [k \in {"init_class", "tokenizer_class"} |->
                  IF k = "init_class" THEN BertTokenizer ELSE BartTokenizer]
    ELSE IF identifier = "local/init-only" THEN [k \in {"init_class"} |-> BertTokenizer]
    ELSE [k \in {"tokenizer_class"} |-> CustomTokenizer]

\* a configuration object: its type, its tokenizer_class attribute, and whether
\* isinstance(config, PretrainedConfig)
ConfigObject(cls, tokenizer_class) ==
    [is_config |-> TRUE, cls |-> cls, tokenizer_class |-> tokenizer_class]
NoneConfig == [is_config |-> FALSE, cls |-> "NoneType", tokenizer_class |-> NoneStr]
NotAConfig == [is_config |-> FALSE, cls |-> "dict", tokenizer_class |-> NoneStr]

\* AutoConfig.from_pretrained(identifier, **kwargs)
AutoConfigFromPretrained(identifier) ==
    IF identifier \in {"bert-base-uncased", "community/bart-tc"}
    THEN ConfigObject("BartConfig", BartTokenizer)
    ELSE IF identifier \in {"local/bert", "local/bert-fast", "local/both", "local/init-only"}
    THEN ConfigObject("BertConfig", NoneStr)
    ELSE IF identifier = "community/albert" THEN ConfigObject("AlbertConfig", NoneStr)
    ELSE IF identifier = "bart-base" THEN ConfigObject("BartConfig", NoneStr)
    ELSE ConfigObject("CustomConfig", NoneStr)

\* getattr on paddlenlp.transformers.<module>, its .tokenizer or its .tokenizer_fast
ModuleDefines(module_name, class_name) ==
    class_name \in {AlbertChineseTokenizer, AlbertEnglishTokenizer, BartTokenizer,
                    BertTokenizer, BertTokenizerFast}

\* hasattr(paddlenlp, class_name)
MainModuleHas(class_name) == FALSE

(***************************************************************************)
(* tokenizer_class_from_name                                               *)
(***************************************************************************)
InSeq(x, s) == \E i \in 1..Len(s) : s[i] = x

\* the first table entry that lists class_name, 0 when none does
FirstModuleListing(class_name) ==
    IF \E i \in 1..Len(TOKENIZER_MAPPING_NAMES) :
           InSeq(class_name, get_mapping_tokenizers(TOKENIZER_MAPPING_NAMES[i][2], TRUE))
    THEN CHOOSE i \in 1..Len(TOKENIZER_MAPPING_NAMES) :
           /\ InSeq(class_name, get_mapping_tokenizers(TOKENIZER_MAPPING_NAMES[i][2], TRUE))
           /\ \A j \in 1..(i - 1) :
                  ~InSeq(class_name,
                         get_mapping_tokenizers(TOKENIZER_MAPPING_NAMES[j][2], TRUE))
    ELSE 0

\* a class of that __name__ among the runtime-registered pairs
InExtraContent(class_name) ==
    \E config \in DOMAIN extra_content :
        \E i \in 1..Len(extra_content[config].items) :
            /\ extra_content[config].items[i].kind = "class"
            /\ extra_content[config].items[i].name = class_name

\* [raised, val]: val is the class found, NoneV when there is none
tokenizer_class_from_name(class_name) ==
    IF class_name = PretrainedTokenizerFast
    THEN [raised |-> FALSE, val |-> Cls(PretrainedTokenizerFast)]
    ELSE IF FirstModuleListing(class_name) # 0
    THEN IF ModuleDefines(TOKENIZER_MAPPING_NAMES[FirstModuleListing(class_name)][1],
                          class_name)
         THEN [raised |-> FALSE, val |-> Cls(class_name)]
         ELSE [raised |-> TRUE, val |-> NoneV]
    ELSE IF InExtraContent(class_name)
    THEN [raised |-> FALSE, val |-> Cls(class_name)]
    ELSE IF MainModuleHas(class_name)
    THEN [raised |-> FALSE, val |-> Cls(class_name)]
    ELSE [raised |-> FALSE, val |-> NoneV]

(***************************************************************************)
(* get_tokenizer_config                                                    *)
(***************************************************************************)
\* a reader that does not test for the missing file
get_tokenizer_config_Unchecked(identifier) == TokenizerConfigFile(identifier)

get_tokenizer_config(identifier) ==
    IF ~ResolveFilePathFinds(identifier) THEN EmptyDict
    ELSE TokenizerConfigFile(identifier)

\* lines 323-325 of _get_tokenizer_class_from_config: the declared class name
InitClassOf(init_kwargs) ==
    IF DictGet(init_kwargs, "init_class", NoneStr) # NoneStr
    THEN DictGet(init_kwargs, "init_class", NoneStr)
    ELSE DictGet(init_kwargs, "tokenizer_class", NoneStr)

(***************************************************************************)
(* AutoTokenizer.from_pretrained                                           *)
(***************************************************************************)
\* what a call did before it ended: log lists the collaborators invoked, in
\* order; lookups the names given to tokenizer_class_from_name; declared is
\* config_tokenizer_class as it stands at line 430; config the model
\* configuration consulted (NoneConfig when there was none)
Trace(log, lookups, declared, config) ==
    [log |-> log, lookups |-> lookups, declared |-> declared, config |-> config]

\* how a call ended: a delegation to cls.from_pretrained(fwd_id, *fwd_args,
\* **fwd_kwargs), or an exception with what its message names
Delegated(cls, identifier, model_args, kwargs, trace) ==
    [status |-> "delegated", cls |-> cls, fwd_id |-> identifier,
     fwd_args |-> model_args, fwd_kwargs |-> kwargs, msg_id |-> "",
     msg_class |-> NoneStr, trace |-> trace]

Raised(error, msg_id, msg_class, trace) ==
    [status |-> error, cls |-> NoneV, fwd_id |-> "", fwd_args |-> <<>>,
     fwd_kwargs |-> EmptyDict, msg_id |-> msg_id, msg_class |-> msg_class,
     trace |-> trace]

\* all_tokenizer_names, lines 410-414
all_tokenizer_names ==
    UNION {{tokenizer_mapping[i].names[j] : j \in 1..Len(tokenizer_mapping[i].names)} :
              i \in 1..Len(tokenizer_mapping)}

\* a lookup that stops at the first entry of the table whatever it lists
BuiltinClass_FirstEntry(identifier) == tokenizer_mapping[1].cls

\* lines 418-422: the class of the first entry that lists the identifier
BuiltinClass(identifier) ==
    tokenizer_mapping[
        CHOOSE i \in 1..Len(tokenizer_mapping) :
            /\ InSeq(identifier, tokenizer_mapping[i].names)
            /\ \A j \in 1..(i - 1) : ~InSeq(identifier, tokenizer_mapping[j].names)].cls

\* use_fast=false taken as a request for the reference class
DeclaredCandidates_StripFast(use_fast, config_tokenizer_class) ==
    IF use_fast /\ ~EndsWithFast(config_tokenizer_class)
    THEN <<AppendFast(config_tokenizer_class), config_tokenizer_class>>
    ELSE IF ~use_fast /\ EndsWithFast(config_tokenizer_class)
         THEN <<SubSeq(config_tokenizer_class, 1, Len(config_tokenizer_class) - 1)>>
         ELSE <<config_tokenizer_class>>

\* the accelerated name tried alone, without the declared name after it
DeclaredCandidates_NoFallback(use_fast, config_tokenizer_class) ==
    IF use_fast /\ ~EndsWithFast(config_tokenizer_class)
    THEN <<AppendFast(config_tokenizer_class)>>
    ELSE <<config_tokenizer_class>>

\* lines 432-437: the class names tried, in order
DeclaredCandidates(use_fast, config_tokenizer_class) ==
    IF use_fast /\ ~EndsWithFast(config_tokenizer_class)
    THEN <<AppendFast(config_tokenizer_class), config_tokenizer_class>>
    ELSE <<config_tokenizer_class>>

\* lines 431-442: the candidates are looked up until one names a class
RECURSIVE TryCandidates(_, _, _, _, _, _)
TryCandidates(candidates, i, identifier, model_args, kwargs, trace) ==
    LET found == tokenizer_class_from_name(candidates[i])
        trace1 == [trace EXCEPT !.lookups = Append(@, candidates[i])]
    IN IF found.raised
       THEN Raised("ValueError: not currently imported", "", candidates[i], trace1)
       ELSE IF found.val # NoneV
       THEN Delegated(found.val, identifier, model_args, kwargs, trace1)
       ELSE IF i < Len(candidates)
       THEN TryCandidates(candidates, i + 1, identifier, model_args, kwargs, trace1)
       ELSE Raised("ValueError: does not exist", "", candidates[i], trace1)

FromDeclaredName(identifier, model_args, kwargs, use_fast, trace) ==
    TryCandidates(DeclaredCandidates(use_fast, trace.declared), 1,
                  identifier, model_args, kwargs, trace)

\* the terminal error raised where the missing-dependency error belongs
CantLoadTokenizer_WrongError(identifier, trace) ==
    Raised("ValueError: sentencepiece", "", NoneStr, trace)

\* lines 470-476: the terminal error, whose message names the identifier
CantLoadTokenizer(identifier, trace) ==
    Raised("RuntimeError: can't load tokenizer", identifier, NoneStr, trace)

\* FromModelType with the accelerated class taken only on use_fast: an entry
\* without a reference class no longer goes to its accelerated class
FromModelType_OnlyOnUseFast(identifier, model_args, kwargs, use_fast, trace) ==
    LET model_type == config_class_to_model_type(trace.config.cls)
        item == LazyMappingGetItem(trace.config.cls)
        is_pair == item.val.kind = "tuple"
        tokenizer_class_py == IF is_pair THEN item.val.items[1] ELSE item.val
        tokenizer_class_fast == IF is_pair THEN item.val.items[2] ELSE NoneV
    IN IF model_type = ""
       THEN CantLoadTokenizer(identifier, trace)
       ELSE IF ~item.ok
       THEN Raised("KeyError", "", NoneStr, trace)
       ELSE IF tokenizer_class_fast # NoneV /\ use_fast
       THEN Delegated(tokenizer_class_fast, identifier, model_args, kwargs, trace)
       ELSE IF tokenizer_class_py = NoneV
       THEN Raised("ValueError: sentencepiece", "", NoneStr, trace)
       ELSE IF tokenizer_class_py.kind = "str"
       THEN Raised("AttributeError", "", NoneStr, trace)
       ELSE IF tokenizer_class_py.kind = "tuple"
       THEN Delegated(tokenizer_class_py.items[1], identifier, model_args, kwargs, trace)
       ELSE Raised("TypeError", "", NoneStr, trace)

\* lines 446-476: the fallback on the type of the model configuration
FromModelType(identifier, model_args, kwargs, use_fast, trace) ==
    LET model_type == config_class_to_model_type(trace.config.cls)
        item == LazyMappingGetItem(trace.config.cls)
        is_pair == item.val.kind = "tuple"
        tokenizer_class_py == IF is_pair THEN item.val.items[1] ELSE item.val
        tokenizer_class_fast == IF is_pair THEN item.val.items[2] ELSE NoneV
    IN IF model_type = ""
       THEN CantLoadTokenizer(identifier, trace)
       ELSE IF ~item.ok
       THEN Raised("KeyError", "", NoneStr, trace)
       ELSE IF tokenizer_class_fast # NoneV /\ (use_fast \/ tokenizer_class_py = NoneV)
       THEN Delegated(tokenizer_class_fast, identifier, model_args, kwargs, trace)
       ELSE IF tokenizer_class_py = NoneV
       THEN Raised("ValueError: sentencepiece", "", NoneStr, trace)
       ELSE IF tokenizer_class_py.kind = "str"
       THEN Raised("AttributeError", "", NoneStr, trace)
       ELSE IF tokenizer_class_py.kind = "tuple"
       THEN Delegated(tokenizer_class_py.items[1], identifier, model_args, kwargs, trace)
       \* a class is not subscriptable: tokenizer_class_py[0] raises
       ELSE Raised("TypeError", "", NoneStr, trace)

\* line 425: the class name the tokenizer config declares
ConfigTokenizerClass(tokenizer_config) ==
    DictGet(tokenizer_config, "tokenizer_class", NoneStr)

\* lines 424-429 and what follows them
FromConfigs(identifier, model_args, kwargs, use_fast, config) ==
    LET tokenizer_config == get_tokenizer_config(identifier)
        from_file == ConfigTokenizerClass(tokenizer_config)
        fetch == from_file = NoneStr /\ ~config.is_config
        config1 == IF fetch THEN AutoConfigFromPretrained(identifier) ELSE config
        config_tokenizer_class ==
            IF from_file = NoneStr THEN config1.tokenizer_class ELSE from_file
        trace == Trace(IF fetch THEN <<"resolve_file_path", "AutoConfig.from_pretrained">>
                       ELSE <<"resolve_file_path">>,
                       <<>>, config_tokenizer_class,
                       IF from_file = NoneStr THEN config1 ELSE NoneConfig)
    IN IF config_tokenizer_class # NoneStr
       THEN FromDeclaredName(identifier, model_args, kwargs, use_fast, trace)
       ELSE FromModelType(identifier, model_args, kwargs, use_fast, trace)

\* use_fast read but left among the forwarded arguments
ForwardedKwargs_KeepsUseFast(kwargs) ==
    DictPop(DictSet(DictPop(kwargs, "config"), "_from_auto", TRUE), "tokenizer_type")

\* lines 401-405: the options the resolver takes out of **kwargs, and its marker
ForwardedKwargs(kwargs) ==
    DictPop(DictPop(DictSet(DictPop(kwargs, "config"), "_from_auto", TRUE),
                    "use_fast"), "tokenizer_type")

\* lines 405-408
TokenizerTypeRejected(kwargs) == DictGet(kwargs, "tokenizer_type", "") # ""

from_pretrained(identifier, model_args, kwargs_in) ==
    LET config == DictGet(kwargs_in, "config", NoneConfig)
        use_fast == DictGet(kwargs_in, "use_fast", FALSE)
        kwargs == ForwardedKwargs(kwargs_in)
        nothing == Trace(<<>>, <<>>, NoneStr, NoneConfig)
    IN IF TokenizerTypeRejected(kwargs_in)
       THEN Raised("NotImplementedError", "", NoneStr, nothing)
       ELSE IF identifier \in all_tokenizer_names
       THEN Delegated(BuiltinClass(identifier), identifier, model_args, kwargs, nothing)
       ELSE FromConfigs(identifier, model_args, kwargs, use_fast, config)

(***************************************************************************)
(* The calls: their arguments                                              *)
(***************************************************************************)
MaxModelArgs == 1

ModelArgs == {[i \in 1..n |-> "arg"] : n \in 0..MaxModelArgs}

UseFastKwargs == {EmptyDict, [k \in {"use_fast"} |-> TRUE], [k \in {"use_fast"} |-> FALSE]}
ConfigKwargs ==
    {EmptyDict, [k \in {"config"} |-> ConfigObject("BartConfig", NoneStr)],
     [k \in {"config"} |-> NotAConfig]}
TokenizerTypeKwargs == {EmptyDict, [k \in {"tokenizer_type"} |-> "bert"]}
OtherKwargs ==
    {EmptyDict,
     [k \in {"cache_dir", "_from_auto"} |-> IF k = "cache_dir" THEN "/cache" ELSE FALSE]}

\* the options the resolver reads, in every combination
ResolverKwargs == {a @@ b : a \in UseFastKwargs, b \in ConfigKwargs}

\* calls that carry arguments meant for the tokenizer, alone and beside the
\* resolver's options
ForwardingKwargs ==
    {a @@ d : a \in {EmptyDict, [k \in {"use_fast", "config"} |->
                                     IF k = "use_fast" THEN TRUE
                                     ELSE ConfigObject("BartConfig", NoneStr)]},
              d \in OtherKwargs}

\* calls that carry the unsupported option
UnsupportedKwargs ==
    {a @@ c : a \in {EmptyDict, [k \in {"use_fast"} |-> TRUE]},
              c \in TokenizerTypeKwargs \ {EmptyDict}}

Kwargs == (ResolverKwargs \cup ForwardingKwargs) \cup UnsupportedKwargs

\* <<model_args, kwargs>>: positional arguments go with the forwarding calls
FromPretrainedArguments ==
    ({<<>>} \X Kwargs) \cup (ModelArgs \X ForwardingKwargs)

FromPretrained(identifier, model_args, kwargs) ==
    /\ call' = [op |-> "from_pretrained", id |-> identifier, model_args |-> model_args,
                kwargs |-> kwargs, result |-> from_pretrained(identifier, model_args, kwargs)]
    /\ UNCHANGED extra_content

GetTokenizerConfig(identifier) ==
    /\ call' = [op |-> "get_tokenizer_config", id |-> identifier,
                found |-> ResolveFilePathFinds(identifier),
                result |-> get_tokenizer_config(identifier)]
    /\ UNCHANGED extra_content

Init ==
    /\ extra_content = EmptyDict
    /\ call = [op |-> "none"]

Next ==
    \/ \E identifier \in Identifiers, arguments \in FromPretrainedArguments :
           FromPretrained(identifier, arguments[1], arguments[2])
    \/ \E identifier \in Identifiers : GetTokenizerConfig(identifier)
    \/ \E config_class \in RegConfigClasses, slow \in RegSlowClasses,
          fast \in RegFastClasses, exist_ok \in BOOLEAN :
           Register(config_class, slow, fast, exist_ok)

Spec == Init /\ [][Next]_vars

(***************************************************************************)
(* Vocabulary of the properties                                            *)
(***************************************************************************)
IsFromPretrained == call.op = "from_pretrained"
IsRegister == call.op = "register"

\* the reference classes of the table and the identifiers they declare
BuiltinReferenceClasses ==
    UNION {{get_mapping_tokenizers(TOKENIZER_MAPPING_NAMES[i][2], FALSE)[j] :
               j \in 1..Len(get_mapping_tokenizers(TOKENIZER_MAPPING_NAMES[i][2], FALSE))} :
              i \in 1..Len(TOKENIZER_MAPPING_NAMES)}
Owners(identifier) ==
    {n \in BuiltinReferenceClasses : InSeq(identifier, PretrainedInitNames(n))}
IsBuiltinIdentifier(identifier) == Owners(identifier) # {}

\* the class names that name a class: those of the table, those registered at
\* run time, and the base accelerated class
TableClassNames ==
    UNION {{get_mapping_tokenizers(TOKENIZER_MAPPING_NAMES[i][2], TRUE)[j] :
               j \in 1..Len(get_mapping_tokenizers(TOKENIZER_MAPPING_NAMES[i][2], TRUE))} :
              i \in 1..Len(TOKENIZER_MAPPING_NAMES)}
RegisteredClassNames ==
    {extra_content[c].items[i].name : c \in DOMAIN extra_content, i \in 1..2} \ {NoneStr}
KnownClassNames ==
    (TableClassNames \cup RegisteredClassNames) \cup {PretrainedTokenizerFast}

SuppliedConfig(kwargs) == DictGet(kwargs, "config", NoneConfig)
UseFastRequested(kwargs) == DictGet(kwargs, "use_fast", FALSE)
HasTokenizerType(kwargs) == "tokenizer_type" \in DOMAIN kwargs

\* the call went as far as asking the file resolver for the tokenizer config
ReadTokenizerConfig ==
    /\ IsFromPretrained
    /\ call.result.trace.log # <<>>
    /\ call.result.trace.log[1] = "resolve_file_path"

\* the model configuration a call has at hand: the one supplied, else AutoConfig's
ModelConfigFor(identifier, kwargs) ==
    IF SuppliedConfig(kwargs).is_config THEN SuppliedConfig(kwargs)
    ELSE AutoConfigFromPretrained(identifier)

\* the class name the code takes as declared: the file's tokenizer_class, else
\* the model configuration's
DeclaredFor(identifier, kwargs) ==
    IF /\ ResolveFilePathFinds(identifier)
       /\ "tokenizer_class" \in DOMAIN TokenizerConfigFile(identifier)
    THEN TokenizerConfigFile(identifier)["tokenizer_class"]
    ELSE ModelConfigFor(identifier, kwargs).tokenizer_class

ValidationErrors ==
    {"ValueError: need either", "ValueError: fast passed as slow",
     "ValueError: slow passed as fast", "ValueError: inconsistent slow_tokenizer_class"}
RegistrationErrors == ValidationErrors \cup {"ValueError: already used"}

(***************************************************************************)
(* C1                                                                      *)
(***************************************************************************)
\* C1, as claimed: every call whose identifier is one a built-in reference class
\* declares delegates to a class that declares it and invokes neither the file
\* resolver nor AutoConfig.
C1_BuiltinAlwaysDelegates ==
    (IsFromPretrained /\ IsBuiltinIdentifier(call.id)) =>
        /\ call.result.status = "delegated"
        /\ call.result.cls.name \in Owners(call.id)
        /\ call.result.trace.log = <<>>

\* C1, amended: a call with a built-in identifier never invokes the file
\* resolver or AutoConfig; it delegates to the class that declares the
\* identifier unless it carries the unsupported tokenizer_type option, in which
\* case it raises NotImplementedError before any lookup.
C1_BuiltinShortcut ==
    (IsFromPretrained /\ IsBuiltinIdentifier(call.id)) =>
        /\ call.result.trace.log = <<>>
        /\ ~HasTokenizerType(call.kwargs) =>
               /\ call.result.status = "delegated"
               /\ call.result.cls.kind = "class"
               /\ call.result.cls.name \in Owners(call.id)
               /\ call.result.fwd_id = call.id
        /\ HasTokenizerType(call.kwargs) => call.result.status = "NotImplementedError"

\* a built-in identifier whose repository holds a tokenizer config naming another
\* class: the owner is chosen, the file is not read
C1_Witness ==
    /\ IsFromPretrained
    /\ call.id = "bert-base-uncased"
    /\ ResolveFilePathFinds(call.id)
    /\ call.result.status = "delegated"
    /\ call.result.cls = Cls(BertTokenizer)

(***************************************************************************)
(* C2                                                                      *)
(***************************************************************************)
\* C2: when the file resolver finds no tokenizer config, get_tokenizer_config
\* returns the empty mapping, and from_pretrained goes on to the model
\* configuration: the supplied one, else the one it fetches with AutoConfig.
C2_MissingFileIsEmptyConfig ==
    /\ (call.op = "get_tokenizer_config" /\ ~call.found) => call.result = EmptyDict
    /\ (ReadTokenizerConfig /\ ~ResolveFilePathFinds(call.id)) =>
           /\ call.result.trace.config = ModelConfigFor(call.id, call.kwargs)
           /\ call.result.trace.log =
                  IF SuppliedConfig(call.kwargs).is_config
                  THEN <<"resolve_file_path">>
                  ELSE <<"resolve_file_path", "AutoConfig.from_pretrained">>

C2_Witness ==
    /\ ReadTokenizerConfig
    /\ call.id = "community/albert"
    /\ ~ResolveFilePathFinds(call.id)
    /\ call.result.trace.log = <<"resolve_file_path", "AutoConfig.from_pretrained">>
    /\ call.result.status = "delegated"

(***************************************************************************)
(* C3                                                                      *)
(***************************************************************************)
\* C3, as claimed: when the tokenizer config that a call reads holds init_class
\* or tokenizer_class, the declared class name the resolution uses is
\* init_class if present and tokenizer_class otherwise.
C3_InitClassPreferred ==
    (/\ ReadTokenizerConfig
     /\ ResolveFilePathFinds(call.id)
     /\ InitClassOf(TokenizerConfigFile(call.id)) # NoneStr) =>
        /\ call.result.trace.declared = InitClassOf(TokenizerConfigFile(call.id))
        /\ call.result.trace.config = NoneConfig

(***************************************************************************)
(* C4                                                                      *)
(***************************************************************************)
\* C4: when the tokenizer config a call reads declares a class name that names
\* a class and use_fast is false, the call delegates to exactly the class so
\* named, whether or not the name ends in "Fast".
C4_DeclaredNamePrecedence ==
    (/\ ReadTokenizerConfig
     /\ ResolveFilePathFinds(call.id)
     /\ "tokenizer_class" \in DOMAIN TokenizerConfigFile(call.id)
     /\ TokenizerConfigFile(call.id)["tokenizer_class"] \in KnownClassNames
     /\ ~UseFastRequested(call.kwargs)) =>
        /\ call.result.status = "delegated"
        /\ call.result.cls = Cls(TokenizerConfigFile(call.id)["tokenizer_class"])

C4_Witness ==
    /\ IsFromPretrained
    /\ call.id = "local/bert-fast"
    /\ "use_fast" \in DOMAIN call.kwargs
    /\ call.kwargs["use_fast"] = FALSE
    /\ call.result.status = "delegated"
    /\ call.result.cls = Cls(BertTokenizerFast)

(***************************************************************************)
(* C5                                                                      *)
(***************************************************************************)
\* C5: with use_fast=true and a declared class name that does not end in
\* "Fast", the name with "Fast" appended is looked up first and its class is
\* used when there is one; when there is none, the call delegates to the
\* declared class instead of raising.
C5_FastThenDeclared ==
    (/\ ReadTokenizerConfig
     /\ DeclaredFor(call.id, call.kwargs) # NoneStr
     /\ ~EndsWithFast(DeclaredFor(call.id, call.kwargs))
     /\ UseFastRequested(call.kwargs)) =>
        LET declared == DeclaredFor(call.id, call.kwargs)
            fast == declared \o <<"Fast">>
        IN /\ call.result.trace.lookups[1] = fast
           /\ fast \in KnownClassNames =>
                  /\ call.result.status = "delegated"
                  /\ call.result.cls = Cls(fast)
           /\ (fast \notin KnownClassNames /\ declared \in KnownClassNames) =>
                  /\ call.result.status = "delegated"
                  /\ call.result.cls = Cls(declared)
                  /\ call.result.trace.lookups = <<fast, declared>>

C5_Witness ==
    /\ IsFromPretrained
    /\ call.id = "local/both"
    /\ UseFastRequested(call.kwargs)
    /\ call.result.trace.lookups = <<BartTokenizer \o <<"Fast">>, BartTokenizer>>
    /\ call.result.status = "delegated"
    /\ call.result.cls = Cls(BartTokenizer)

(***************************************************************************)
(* C6                                                                      *)
(***************************************************************************)
\* C6, as claimed: a delegating call hands the class the identifier, the
\* positional arguments and every keyword argument of the caller, unchanged,
\* plus _from_auto set to true.
C6_AllKwargsForwarded ==
    (IsFromPretrained /\ call.result.status = "delegated") =>
        /\ call.result.fwd_id = call.id
        /\ call.result.fwd_args = call.model_args
        /\ "_from_auto" \in DOMAIN call.result.fwd_kwargs
        /\ call.result.fwd_kwargs["_from_auto"] = TRUE
        /\ \A k \in DOMAIN call.kwargs :
               /\ k \in DOMAIN call.result.fwd_kwargs
               /\ call.result.fwd_kwargs[k] = call.kwargs[k]

\* C6, amended: a delegating call hands the class the identifier and the
\* positional arguments unchanged; of the keyword arguments it removes the
\* resolver's own options config, use_fast and tokenizer_type, sets _from_auto
\* to true whatever the caller gave for it, and forwards every other one
\* unchanged.
C6_OtherKwargsForwarded ==
    (IsFromPretrained /\ call.result.status = "delegated") =>
        /\ call.result.fwd_id = call.id
        /\ call.result.fwd_args = call.model_args
        /\ DOMAIN call.result.fwd_kwargs =
               ((DOMAIN call.kwargs) \ {"config", "use_fast", "tokenizer_type"})
                   \cup {"_from_auto"}
        /\ call.result.fwd_kwargs["_from_auto"] = TRUE
        /\ \A k \in (DOMAIN call.result.fwd_kwargs) \ {"_from_auto"} :
               call.result.fwd_kwargs[k] = call.kwargs[k]

C6_Witness ==
    /\ IsFromPretrained
    /\ call.id = "local/bert"
    /\ {"config", "use_fast", "cache_dir", "_from_auto"} \subseteq DOMAIN call.kwargs
    /\ call.model_args # <<>>
    /\ call.result.status = "delegated"
    /\ call.result.fwd_args = call.model_args
    /\ call.result.fwd_kwargs["cache_dir"] = "/cache"

(***************************************************************************)
(* C7                                                                      *)
(***************************************************************************)
\* C7: a register call for a config class that already has a runtime entry and
\* that supplies only one of the two classes leaves the other slot of the entry
\* as it was, and, when the call is accepted, puts the supplied class in its
\* slot.
C7_PartialUpdate ==
    [][(/\ call'.op = "register"
        /\ call'.config_class \in DOMAIN extra_content
        /\ (call'.slow = NoneV) # (call'.fast = NoneV)) =>
           LET c == call'.config_class
               omitted == IF call'.slow = NoneV THEN 1 ELSE 2
               supplied == IF call'.slow = NoneV THEN 2 ELSE 1
               given == IF call'.slow = NoneV THEN call'.fast ELSE call'.slow
           IN /\ c \in DOMAIN extra_content'
              /\ extra_content'[c].items[omitted] = extra_content[c].items[omitted]
              /\ call'.status = "ok" => extra_content'[c].items[supplied] = given]_vars

\* an accepted call that gave only the accelerated class, after which the entry
\* still holds a reference class
C7_Witness ==
    /\ IsRegister
    /\ call.status = "ok"
    /\ call.slow = NoneV
    /\ call.fast = Cls(CustomTokenizerFast)
    /\ extra_content[call.config_class] =
           Tup(<<Cls(CustomTokenizer), Cls(CustomTokenizerFast)>>)

(***************************************************************************)
(* C8                                                                      *)
(***************************************************************************)
\* C8: register raises when the class given as reference is an accelerated
\* implementation and when the class given as accelerated is a reference
\* implementation, and it tells the two by the class's base, not by its name.
C8_CategoryMismatchRejected ==
    IsRegister =>
        /\ (call.slow # NoneV /\ IsFastClass(call.slow)) =>
               call.status \in ValidationErrors
        /\ (call.fast # NoneV /\ IsSlowClass(call.fast)) =>
               call.status \in ValidationErrors
        /\ call.status = "ValueError: fast passed as slow" => IsFastClass(call.slow)
        /\ call.status = "ValueError: slow passed as fast" => IsSlowClass(call.fast)

\* an accelerated class whose name does not end in "Fast", given as reference
C8_Witness ==
    /\ IsRegister
    /\ call.slow = Cls(RapidTokenizer)
    /\ call.fast = NoneV
    /\ call.status = "ValueError: fast passed as slow"

(***************************************************************************)
(* C9                                                                      *)
(***************************************************************************)
\* C9: when register is given both classes and the accelerated one declares a
\* slow_tokenizer_class, a declaration that differs from the reference class
\* given makes the call raise, and one that equals it lets the pair through the
\* validation.
C9_CompanionMustMatch ==
    (/\ IsRegister
     /\ call.slow # NoneV
     /\ call.fast # NoneV
     /\ IsFastClass(call.fast)
     /\ SlowTokenizerClassOf(call.fast) # NoneV) =>
        /\ SlowTokenizerClassOf(call.fast) # call.slow =>
               call.status \in ValidationErrors
        /\ SlowTokenizerClassOf(call.fast) = call.slow =>
               /\ call.status \notin ValidationErrors
               /\ call.status = "ok" =>
                      extra_content[call.config_class] = Tup(<<call.slow, call.fast>>)

C9_Witness ==
    /\ IsRegister
    /\ call.slow = Cls(SteadFast)
    /\ call.fast = Cls(CustomTokenizerFast)
    /\ call.status = "ValueError: inconsistent slow_tokenizer_class"

(***************************************************************************)
(* C10                                                                     *)
(***************************************************************************)
\* nothing resolves the identifier: it is no built-in name, the file resolver
\* finds no tokenizer config, and the model configuration at hand declares no
\* tokenizer class and has a type without model type
NothingResolves(identifier, kwargs) ==
    /\ ~IsBuiltinIdentifier(identifier)
    /\ ~ResolveFilePathFinds(identifier)
    /\ ModelConfigFor(identifier, kwargs).tokenizer_class = NoneStr
    /\ \A i \in 1..Len(CONFIG_MAPPING_NAMES) :
           CONFIG_MAPPING_NAMES[i][2] # ModelConfigFor(identifier, kwargs).cls

\* C10, as claimed: every call for an identifier that nothing resolves ends in
\* the "Can't load tokenizer" error that names the identifier.
C10_AlwaysCantLoad ==
    (IsFromPretrained /\ NothingResolves(call.id, call.kwargs)) =>
        /\ call.result.status = "RuntimeError: can't load tokenizer"
        /\ call.result.msg_id = call.id

\* C10, amended: a call for an identifier that nothing resolves never delegates;
\* it ends in the "Can't load tokenizer" error that names the identifier, unless
\* it carries the unsupported tokenizer_type option, in which case it ends in
\* NotImplementedError.
C10_CantLoadUnlessTokenizerType ==
    (IsFromPretrained /\ NothingResolves(call.id, call.kwargs)) =>
        /\ call.result.status # "delegated"
        /\ ~HasTokenizerType(call.kwargs) =>
               /\ call.result.status = "RuntimeError: can't load tokenizer"
               /\ call.result.msg_id = call.id
        /\ HasTokenizerType(call.kwargs) => call.result.status = "NotImplementedError"

\* the error is raised although the configuration class has a runtime entry
C10_Witness ==
    /\ IsFromPretrained
    /\ call.id = "community/custom"
    /\ "CustomConfig" \in DOMAIN extra_content
    /\ call.result.status = "RuntimeError: can't load tokenizer"
    /\ call.result.msg_id = "community/custom"

(***************************************************************************)
(* Vocabulary of the model-config fallback                                 *)
(***************************************************************************)
\* the call got to the fallback with a model configuration whose type has a
\* model type: no class name is declared, by the file or by the configuration
ReachedModelTypeFallback ==
    /\ ReadTokenizerConfig
    /\ DeclaredFor(call.id, call.kwargs) = NoneStr
    /\ \E i \in 1..Len(CONFIG_MAPPING_NAMES) :
           CONFIG_MAPPING_NAMES[i][2] = ModelConfigFor(call.id, call.kwargs).cls

\* the entry of the Config-Class Table for the call's configuration, and its slots
FallbackEntry == LazyMappingGetItem(ModelConfigFor(call.id, call.kwargs).cls).val
ReferenceSlot == IF FallbackEntry.kind = "tuple" THEN FallbackEntry.items[1] ELSE FallbackEntry
AcceleratedSlot == IF FallbackEntry.kind = "tuple" THEN FallbackEntry.items[2] ELSE NoneV

\* the policy of the spec: the accelerated class, when there is one, is taken
\* when use_fast is true or no reference class is registered
AcceleratedSelected ==
    /\ AcceleratedSlot # NoneV
    /\ (UseFastRequested(call.kwargs) \/ ReferenceSlot = NoneV)

(***************************************************************************)
(* C11                                                                     *)
(***************************************************************************)
\* C11, as claimed: in the fallback, when the entry has a reference slot and the
\* accelerated class is not selected, the call delegates to the reference class
\* itself when the slot is a single class and to the first candidate when the
\* slot is a collection of classes; it does not fail.
C11_ReferenceClassUsed ==
    (/\ ReachedModelTypeFallback
     /\ ReferenceSlot # NoneV
     /\ ~AcceleratedSelected) =>
        /\ call.result.status = "delegated"
        /\ call.result.cls = IF ReferenceSlot.kind = "tuple" THEN ReferenceSlot.items[1]
                                                           ELSE ReferenceSlot

C13_RejectedCallWritesNothing ==
    [][(/\ call'.op = "register"
        /\ call'.status \in ValidationErrors) =>
           /\ extra_content' = extra_content
           /\ \A c \in ConfigClasses :
                  LazyMappingGetItem(c)' = LazyMappingGetItem(c)]_vars

\* a call rejected for an inconsistent companion, on a configuration class
\* that has a runtime entry other than the pair the call gave
C13_Witness ==
    /\ IsRegister
    /\ call.status = "ValueError: inconsistent slow_tokenizer_class"
    /\ call.config_class \in DOMAIN extra_content
    /\ extra_content[call.config_class] # Tup(<<call.slow, call.fast>>)
    /\ extra_content[call.config_class].items[2] # call.fast
====
